---- MODULE Spec2Model ----
(***************************************************************************)
(* Model of the stock-price subscription and broadcast engine,             *)
(* StockValueManager (src/src/stockValueManager.ts), with the quote        *)
(* resolver it consumes (ApiClient.getQuote, src/src/apiClient.ts) and the *)
(* connection events the hosting worker forwards to it.                    *)
(*                                                                         *)
(* JavaScript arrays are objects: `for (const x of arr)` walks the array   *)
(* object it was started on by index, so a push onto that object is seen   *)
(* by a suspended loop, while `arr = arr.filter(...)` makes a new object   *)
(* the suspended loop never sees.  A cycle therefore either still reads    *)
(* the live array (ldet/idet = FALSE) or holds the detached old array      *)
(* (ldet/idet = TRUE, contents in larr/iarr).                              *)
(*                                                                         *)
(* Timestamps (new Date().toISOString()) and console logging are left out: *)
(* no branch of the engine depends on them.                                *)
(***************************************************************************)
EXTENDS Integers, Sequences, FiniteSets, TLC

\* ---------------------------------------------------------------- bounds
MaxListeners == 2
MaxTicks == 2
MaxTimers == 1
MaxPrice == 1
MaxOps == 3
MaxStarts == 2

WS == 1..MaxListeners
Symbols == {"AAPL", "MSFT"}
\* the text of a subscribe message a client sends
SubscribeText == "{\"type\":\"subscribe\",\"symbols\":[\"AAPL\",\"MSFT\"]}"
\* the strings that reach the registry as a symbol: event.data is passed as is
Strings == Symbols \cup {"aapl", SubscribeText, "BINANCE:BTCUSDT", "F"}
\* the texts a client sends to the session
SessionTexts == Strings \ {"F"}
Prices == 1..MaxPrice

\* a field of the provider's reply that is missing; undefined, 0 and NaN are
\* all falsy for the `||` of the source
Absent == 0

VARIABLES
  listeners,  \* this.listeners: the current array, of listener objects
  obj,        \* the listener objects {ws, interests} ever created
  wsState,    \* ws.readyState of every connection
  timers,     \* number of setInterval timers installed by start()
  ops,        \* number of registry calls and connection events so far
  cycles,     \* the calls of uppdateStockValues made so far, with their locals
  hdr,        \* the cycles whose pending fetch has returned its response
              \* (headers in, timer cleared) while the body is still read
  sess,       \* per connection, what its handlers did: the calls of ws.send
              \* (frames), the ping interval (ping), and whether both its
              \* close and its error event have fired (twice)
  worker      \* the worker around the manager: the keys of its environment
              \* (env), its module variable stockValueManager, the
              \* connections whose session was started (sessions) and the
              \* outcome of the last quote request (response)

vars == <<listeners, obj, wsState, timers, ops, cycles, hdr, sess, worker>>

\* ------------------------------------------------------------- the resolver
\* what fetch + response.json() of makeYahooFinanceRequest can produce
Replies ==
  {[kind |-> "throw", chart |-> FALSE, meta |-> FALSE,
    regularMarketPrice |-> Absent, previousClose |-> Absent]}
  \cup
  {[kind |-> "data", chart |-> FALSE, meta |-> FALSE,
    regularMarketPrice |-> Absent, previousClose |-> Absent]}
  \cup
  {[kind |-> "data", chart |-> TRUE, meta |-> FALSE,
    regularMarketPrice |-> Absent, previousClose |-> Absent]}
  \cup
  [kind : {"data"}, chart : {TRUE}, meta : {TRUE},
   regularMarketPrice : {Absent} \cup Prices,
   previousClose : {Absent} \cup Prices]

\* a || b of JavaScript on numbers
OrElse(a, b) == IF a # Absent THEN a ELSE b

\* getYahooFinanceQuote: ok = FALSE when it throws
getYahooFinanceQuote(r) ==
  IF r.kind = "throw" THEN [ok |-> FALSE, price |-> Absent]
  ELSE IF ~r.chart THEN [ok |-> FALSE, price |-> Absent]
  ELSE IF ~r.meta THEN [ok |-> FALSE, price |-> Absent]
  ELSE [ok |-> TRUE,
        price |-> OrElse(r.regularMarketPrice, OrElse(r.previousClose, 0))]

\* getQuote of the client the manager builds, new ApiClient({}): no provider
\* argument and no finnhub / api-ninjas key, hence the last branch
getQuote(r) == getYahooFinanceQuote(r)

\* a reply that carries no usable price of its own
Malformed(r) == r.kind = "data" /\ r.regularMarketPrice = Absent

\* ------------------------------------------------------------ small helpers
Range(s) == {s[i] : i \in 1..Len(s)}

RECURSIVE Filter(_, _)
Filter(s, keep) ==
  IF s = <<>> THEN <<>>
  ELSE IF Head(s) \in keep THEN <<Head(s)>> \o Filter(Tail(s), keep)
  ELSE Filter(Tail(s), keep)

None == [has |-> FALSE, price |-> 0, src |-> 0, malformed |-> FALSE]

\* ---------------------------------------------------- uppdateStockValues
\* the array objects a suspended or running cycle iterates
CycListeners(c) == IF c.ldet THEN c.larr ELSE listeners
CycInterests(c) ==
  IF c.idet THEN c.iarr ELSE obj[CycListeners(c)[c.li]].interests

\* the symbols cycle c has an outcome for: a cached price or a failure
Resolved(c) == {s \in DOMAIN c.stockCache : c.stockCache[s].has} \cup c.failed

\* sendToClient without the readiness check and the try/catch: the exception
\* of ws.send on a socket that is not open leaves uppdateStockValues, and no
\* later listener is visited
sendToClient_Throws(c, o, data) ==
  IF wsState[obj[o].ws] = "OPEN"
  THEN [c EXCEPT !.sent = Append(@, [lis |-> o, ws |-> obj[o].ws,
                                     updates |-> data,
                                     cur |-> Range(obj[o].interests),
                                     reg |-> o \in Range(listeners),
                                     res |-> Resolved(c),
                                     ready |-> wsState[obj[o].ws] = "OPEN"])]
  ELSE [c EXCEPT !.dropped = Append(@, [lis |-> o, at |-> Len(c.sent)]),
                 !.ldet = TRUE, !.larr = <<>>]

\* sendToClient without the readiness check: ws.send is called whatever the
\* state of the socket
sendToClient_NoCheck(c, o, data) ==
  [c EXCEPT !.sent = Append(@, [lis |-> o, ws |-> obj[o].ws,
                                updates |-> data,
                                cur |-> Range(obj[o].interests),
                                reg |-> o \in Range(listeners),
                                res |-> Resolved(c),
                                ready |-> wsState[obj[o].ws] = "OPEN"])]

\* sendToClient: a frame goes out only on an OPEN socket; otherwise the
\* failure is logged and nothing else happens
sendToClient(c, o, data) ==
  IF wsState[obj[o].ws] = "OPEN"
  THEN [c EXCEPT !.sent = Append(@, [lis |-> o, ws |-> obj[o].ws,
                                     updates |-> data,
                                     cur |-> Range(obj[o].interests),
                                     reg |-> o \in Range(listeners),
                                     res |-> Resolved(c),
                                     ready |-> wsState[obj[o].ws] = "OPEN"])]
  ELSE [c EXCEPT !.dropped = Append(@, [lis |-> o, at |-> Len(c.sent)])]

PriceUpdate(s, v) ==
  [type |-> "price_update", symbol |-> s, price |-> v.price, src |-> v.src,
   malformed |-> v.malformed]

ErrorUpdate(s, id) ==
  [type |-> "error", symbol |-> s, price |-> 0, src |-> id,
   malformed |-> FALSE]

\* A cycle record holds the locals of one call of uppdateStockValues:
\*   pc                 "await" while suspended on getQuote, "done" after return
\*   li, si             positions of the two for-of loops (si = 0: loop not entered)
\*   ldet/larr, idet/iarr  the detached array a loop walks, once the live one
\*                      was replaced by filter
\*   stockCache, updates   the locals of the same names
\* and the history the properties are stated on:
\*   calls              the symbols getQuote was called for, in order
\*   failed             the symbols for which a getQuote call threw
\*   sent               the frames ws.send was called with, each with the
\*                      receiver's interests (cur) and registration (reg) then,
\*                      the symbols the cycle had an outcome for (res) and
\*                      whether the socket was open at the call (ready)
\*   dropped            the deliveries given up because the socket was not
\*                      open, each with the number of frames sent before it
\*   snap, snapReg      the interests and the registry when the call started
\*   quiet              no registry call was made while the cycle was suspended
\*   threw              an exception left uppdateStockValues
\* src and malformed on a cache value or an entry name the cycle whose
\* resolver call produced it and whether that reply lacked its price.

\* StartCycle with the cache kept in a field of the manager instead of a local:
\* the new cycle starts from what the previous call left in it
StartCycle_SharedCache(id) ==
  [id |-> id, pc |-> "run",
   ldet |-> FALSE, larr |-> <<>>, li |-> 1,
   idet |-> FALSE, iarr |-> <<>>, si |-> 0,
   stockCache |-> IF id > 1 THEN cycles[id - 1].stockCache
                  ELSE [s \in Strings |-> None],
   updates |-> <<>>,
   calls |-> <<>>, failed |-> {}, sent |-> <<>>, dropped |-> <<>>,
   quiet |-> TRUE, threw |-> FALSE,
   snap |-> [o \in 1..MaxListeners |->
               IF o \in Range(listeners) THEN Range(obj[o].interests) ELSE {}],
   snapReg |-> Range(listeners)]

\* the locals of a call of uppdateStockValues that has not run yet
StartCycle(id) ==
  [id |-> id, pc |-> "run",
   ldet |-> FALSE, larr |-> <<>>, li |-> 1,
   idet |-> FALSE, iarr |-> <<>>, si |-> 0,
   stockCache |-> [s \in Strings |-> None],
   updates |-> <<>>,
   calls |-> <<>>, failed |-> {}, sent |-> <<>>, dropped |-> <<>>,
   quiet |-> TRUE, threw |-> FALSE,
   snap |-> [o \in 1..MaxListeners |->
               IF o \in Range(listeners) THEN Range(obj[o].interests) ELSE {}],
   snapReg |-> Range(listeners)]

RECURSIVE Run(_)
\* Run without `if (listener.interests.length === 0) continue` and without
\* `if (updates.length > 0)`: every listener visited is sent its updates
Run_SendsEmpty(c) ==
  IF c.li > Len(CycListeners(c))
  THEN [c EXCEPT !.pc = "done", !.ldet = FALSE, !.larr = <<>>, !.li = 1]
  ELSE
    LET o == CycListeners(c)[c.li] IN
    IF c.si = 0
    THEN Run([c EXCEPT !.updates = <<>>, !.si = 1,
                       !.idet = FALSE, !.iarr = <<>>])
    ELSE
      IF c.si > Len(CycInterests(c))
      THEN LET d == sendToClient(c, o, c.updates)
           IN Run([d EXCEPT !.li = @ + 1, !.si = 0, !.updates = <<>>,
                            !.idet = FALSE, !.iarr = <<>>])
      ELSE
        LET s == CycInterests(c)[c.si] IN
        IF c.stockCache[s].has
        THEN Run([c EXCEPT !.updates = Append(@, PriceUpdate(s, c.stockCache[s])),
                           !.si = @ + 1])
        ELSE [c EXCEPT !.pc = "await", !.calls = Append(@, s)]

\* runs the two nested loops from the cycle's position up to the next await
\* (pc = "await": getQuote was called for the current symbol) or to the end
Run(c) ==
  IF c.li > Len(CycListeners(c))
  THEN [c EXCEPT !.pc = "done", !.ldet = FALSE, !.larr = <<>>, !.li = 1]
  ELSE
    LET o == CycListeners(c)[c.li] IN
    IF c.si = 0
    THEN IF Len(obj[o].interests) = 0
         THEN Run([c EXCEPT !.li = @ + 1])
         ELSE Run([c EXCEPT !.updates = <<>>, !.si = 1,
                            !.idet = FALSE, !.iarr = <<>>])
    ELSE
      IF c.si > Len(CycInterests(c))
      THEN LET d == IF Len(c.updates) > 0
                    THEN sendToClient(c, o, c.updates) ELSE c
           IN Run([d EXCEPT !.li = @ + 1, !.si = 0, !.updates = <<>>,
                            !.idet = FALSE, !.iarr = <<>>])
      ELSE
        LET s == CycInterests(c)[c.si] IN
        IF c.stockCache[s].has
        THEN Run([c EXCEPT !.updates = Append(@, PriceUpdate(s, c.stockCache[s])),
                           !.si = @ + 1])
        ELSE [c EXCEPT !.pc = "await", !.calls = Append(@, s)]

\* the continuation of the await without the try/catch around it: the
\* rejection of getQuote leaves uppdateStockValues
Resume_NoCatch(c, r) ==
  LET s == CycInterests(c)[c.si]
      q == getQuote(r)
  IN IF q.ok
     THEN LET v == [has |-> TRUE, price |-> OrElse(q.price, 0), src |-> c.id,
                    malformed |-> Malformed(r)]
          IN Run([c EXCEPT !.stockCache[s] = v,
                           !.updates = Append(@, PriceUpdate(s, v)),
                           !.si = @ + 1, !.pc = "run"])
     ELSE [c EXCEPT !.failed = @ \cup {s}, !.threw = TRUE, !.pc = "done",
                    !.ldet = FALSE, !.larr = <<>>, !.li = 1,
                    !.idet = FALSE, !.iarr = <<>>, !.si = 0, !.updates = <<>>]

\* the continuation of `await this.apiClient.getQuote(symbol)`
Resume(c, r) ==
  LET s == CycInterests(c)[c.si]
      q == getQuote(r)
  IN IF q.ok
     THEN LET v == [has |-> TRUE, price |-> OrElse(q.price, 0), src |-> c.id,
                    malformed |-> Malformed(r)]
          IN Run([c EXCEPT !.stockCache[s] = v,
                           !.updates = Append(@, PriceUpdate(s, v)),
                           !.si = @ + 1, !.pc = "run"])
     ELSE Run([c EXCEPT !.updates = Append(@, ErrorUpdate(s, c.id)),
                        !.failed = @ \cup {s},
                        !.si = @ + 1, !.pc = "run"])

\* ----------------------------------------------------------------- actions
InitRegistry ==
  /\ listeners = <<>>
  /\ obj = <<>>
  /\ wsState = [w \in WS |-> "OPEN"]
  /\ timers = 0
  /\ ops = 0
  /\ cycles = <<>>
  /\ hdr = {}
  /\ sess = [w \in WS |-> [frames |-> <<>>, ping |-> FALSE, twice |-> FALSE]]

\* ApiClientConfig: the keys a deployment can set
Keys == {"finnhubApiKey", "apiNinjasApiKey", "secApiKey"}

\* no quote request answered yet
NoResponse == [symbol |-> "", provider |-> "", status |-> 0, source |-> ""]

\* the manager exists: the state the registry actions are taken in
Init ==
  /\ InitRegistry
  /\ worker = [env |-> {}, stockValueManager |-> "built", sessions |-> {},
               response |-> NoResponse]

\* a registry call made while cycle c is suspended
Disturb(c) == IF c.pc = "await" THEN [c EXCEPT !.quiet = FALSE] ELSE c
Disturbed == [i \in DOMAIN cycles |-> Disturb(cycles[i])]

\* one more call on the registry, within the budget of the model
Op == ops < MaxOps /\ ops' = ops + 1

\* start(interval)
Start ==
  /\ timers < MaxTimers
  /\ timers' = timers + 1
  /\ UNCHANGED <<listeners, obj, wsState, ops, cycles, hdr, sess, worker>>

\* a timer fires: uppdateStockValues() is called, whatever else is running
Tick ==
  /\ timers > 0
  /\ Len(cycles) < MaxTicks
  /\ cycles' = Append(cycles, Run(StartCycle(Len(cycles) + 1)))
  /\ UNCHANGED <<listeners, obj, wsState, timers, ops, hdr, sess, worker>>

\* the resolver answers the call cycle i is suspended on
Reply(i, r) ==
  /\ cycles[i].pc = "await"
  /\ cycles' = [cycles EXCEPT ![i] = Resume(cycles[i], r)]
  /\ UNCHANGED <<listeners, obj, wsState, timers, ops, hdr, sess, worker>>

\* addListener(ws, interests)
AddListener(ints) ==
  /\ Op
  /\ Len(obj) < MaxListeners
  /\ obj' = Append(obj, [ws |-> Len(obj) + 1, interests |-> ints])
  /\ listeners' = Append(listeners, Len(obj) + 1)
  /\ cycles' = Disturbed
  /\ UNCHANGED <<wsState, timers, hdr, sess, worker>>

\* the first listener of this.listeners that holds ws, 0 when there is none
RECURSIVE FindIn(_, _, _, _)
FindIn(L, O, w, k) ==
  IF k > Len(L) THEN 0
  ELSE IF O[L[k]].ws = w THEN L[k]
  ELSE FindIn(L, O, w, k + 1)
FindFrom(w, k) == FindIn(listeners, obj, w, k)
Find(w) == FindFrom(w, 1)

\* addInterest without the includes test
addInterest_NoIncludes(L, O, w, s) ==
  LET o == FindIn(L, O, w, 1) IN
    IF o # 0
    THEN [O EXCEPT ![o].interests = Append(@, s)]
    ELSE O

\* addInterest without the test that the listener holds ws
addInterest_AllListeners(L, O, w, s) ==
  [o \in DOMAIN O |->
     IF o \in Range(L) /\ s \notin Range(O[o].interests)
     THEN [O[o] EXCEPT !.interests = Append(@, s)]
     ELSE O[o]]

\* the listener objects after addInterest(ws, symbol) on listeners L, objects O
addInterest(L, O, w, s) ==
  LET o == FindIn(L, O, w, 1) IN
    IF o # 0 /\ s \notin Range(O[o].interests)
    THEN [O EXCEPT ![o].interests = Append(@, s)]
    ELSE O

\* the listener objects after removeInterest(ws, symbol)
removeInterest(L, O, w, s) ==
  LET o == FindIn(L, O, w, 1) IN
    IF o # 0
    THEN [O EXCEPT ![o].interests = Filter(@, Strings \ {s})]
    ELSE O

\* this.listeners after removeListener(ws)
withoutListener(L, O, w) == Filter(L, {o \in DOMAIN O : O[o].ws # w})

\* addInterest that takes effect only while no cycle is suspended
AddInterest_WhenIdle(w, s) ==
  /\ Op
  /\ obj' = IF \E i \in DOMAIN cycles : cycles[i].pc = "await"
            THEN obj
            ELSE addInterest(listeners, obj, w, s)
  /\ cycles' = Disturbed
  /\ UNCHANGED <<listeners, wsState, timers, hdr, sess, worker>>

\* addInterest(ws, symbol)
AddInterest(w, s) ==
  /\ Op
  /\ obj' = addInterest(listeners, obj, w, s)
  /\ cycles' = Disturbed
  /\ UNCHANGED <<listeners, wsState, timers, hdr, sess, worker>>

\* a cycle suspended inside the interest loop of listener o keeps the old array
DetachInterests(c, o) ==
  IF c.pc = "await" /\ ~c.idet /\ CycListeners(c)[c.li] = o
  THEN [c EXCEPT !.idet = TRUE, !.iarr = obj[o].interests, !.quiet = FALSE]
  ELSE Disturb(c)

\* removeInterest(ws, symbol)
RemoveInterest(w, s) ==
  /\ Op
  /\ obj' = removeInterest(listeners, obj, w, s)
  /\ LET o == Find(w) IN
       IF o # 0
       THEN cycles' = [i \in DOMAIN cycles |-> DetachInterests(cycles[i], o)]
       ELSE cycles' = Disturbed
  /\ UNCHANGED <<listeners, wsState, timers, hdr, sess, worker>>

\* a suspended cycle keeps the old this.listeners array
DetachListeners(c) ==
  IF c.pc = "await" /\ ~c.ldet
  THEN [c EXCEPT !.ldet = TRUE, !.larr = listeners, !.quiet = FALSE]
  ELSE Disturb(c)

removeListener(w) ==
  /\ listeners' = withoutListener(listeners, obj, w)
  /\ cycles' = [i \in DOMAIN cycles |-> DetachListeners(cycles[i])]

\* removeListener(ws), called directly
RemoveListener(w) ==
  /\ Op
  /\ removeListener(w)
  /\ UNCHANGED <<obj, wsState, timers, hdr, sess, worker>>

\* the handler of the first event without its call of removeListener
CloseEvent_NoRemove(w) ==
  /\ Op
  /\ w \in {obj[o].ws : o \in DOMAIN obj}
  /\ wsState[w] # "CLOSED"
  /\ wsState' = [wsState EXCEPT ![w] = "CLOSED"]
  /\ cycles' = Disturbed
  /\ UNCHANGED <<listeners, obj, timers, hdr, sess, worker>>

\* an accepted connection closes or fails: the "close" or "error" handler of
\* the session runs, with readyState CLOSED
CloseEvent(w) ==
  /\ Op
  /\ w \in {obj[o].ws : o \in DOMAIN obj}
  /\ wsState[w] # "CLOSED"
  /\ wsState' = [wsState EXCEPT ![w] = "CLOSED"]
  /\ removeListener(w)
  /\ UNCHANGED <<obj, timers, hdr, sess, worker>>

\* the closing handshake of a connection starts: readyState is CLOSING until
\* the close event is delivered
Closing(w) ==
  /\ Op
  /\ w \in {obj[o].ws : o \in DOMAIN obj}
  /\ wsState[w] = "OPEN"
  /\ wsState' = [wsState EXCEPT ![w] = "CLOSING"]
  /\ cycles' = Disturbed
  /\ UNCHANGED <<listeners, obj, timers, hdr, sess, worker>>

InitialInterests == {<<>>} \cup {<<s>> : s \in Symbols}

Next ==
  \/ Start
  \/ Tick
  \/ \E i \in DOMAIN cycles, r \in Replies : Reply(i, r)
  \/ \E ints \in InitialInterests : AddListener(ints)
  \/ \E w \in WS, s \in Symbols : AddInterest(w, s)
  \/ \E w \in WS, s \in Symbols : RemoveInterest(w, s)
  \/ \E w \in WS : RemoveListener(w)
  \/ \E w \in WS : CloseEvent(w)
  \/ \E w \in WS : Closing(w)

Spec == Init /\ [][Next]_vars

\* ------------------------------------------------- starting the manager twice
\* start(interval) on a manager that start() was already called on
StartAgain ==
  /\ timers >= 1
  /\ timers < MaxStarts
  /\ timers' = timers + 1
  /\ UNCHANGED <<listeners, obj, wsState, ops, cycles, hdr, sess, worker>>

NextStart ==
  \/ Next
  \/ StartAgain

SpecStart == Init /\ [][NextStart]_vars

\* ---------------------------------------------- registering a handle twice
\* addListener(ws, interests) with a ws that this.listeners already holds
AddListenerAgain(w, ints) ==
  /\ Op
  /\ Len(obj) < MaxListeners
  /\ w \in {obj[o].ws : o \in Range(listeners)}
  /\ obj' = Append(obj, [ws |-> w, interests |-> ints])
  /\ listeners' = Append(listeners, Len(obj) + 1)
  /\ cycles' = Disturbed
  /\ UNCHANGED <<wsState, timers, hdr, sess, worker>>

NextDup ==
  \/ Next
  \/ \E w \in WS, ints \in InitialInterests : AddListenerAgain(w, ints)

SpecDup == Init /\ [][NextDup]_vars

\* ------------------------------------------------- messages from a client
\* the "message" handler of handleWebSocketSession:
\* stockValueManager?.addInterest(websocket, event.data)
SessionMessage(w, data) ==
  /\ w \in {obj[o].ws : o \in DOMAIN obj}
  /\ wsState[w] = "OPEN"
  /\ AddInterest(w, data)

\* a failed connection fires "error" and then "close": the handler of the
\* second event runs on a connection the first one has removed
RepeatEvent(w) ==
  /\ Op
  /\ wsState[w] = "CLOSED"
  /\ w \in {obj[o].ws : o \in DOMAIN obj}
  /\ ~sess[w].twice
  /\ sess' = [sess EXCEPT ![w].twice = TRUE]
  /\ removeListener(w)
  /\ UNCHANGED <<obj, wsState, timers, hdr, worker>>

\* the interests handleWebSocketSession registers a connection with
SessionInterests == <<"BINANCE:BTCUSDT">>

\* the registry as the session handlers drive it
NextWire ==
  \/ Start
  \/ Tick
  \/ \E i \in DOMAIN cycles, r \in Replies : Reply(i, r)
  \/ AddListener(SessionInterests)
  \/ \E w \in WS : CloseEvent(w)
  \/ \E w \in WS : Closing(w)
  \/ \E w \in WS : RepeatEvent(w)
  \/ \E w \in WS, data \in SessionTexts : SessionMessage(w, data)

SpecWire == Init /\ [][NextWire]_vars

\* ------------------------------- the manager that installs its own handlers
\* The StockValueManager of finnhubClient.ts: addListener(ws) registers ws with
\* no interests and installs the close, error and message handlers and the
\* ping interval; uppdateStockValues and sendToClient are as above.
UnsubscribeText == "{\"type\":\"unsubscribe\",\"symbols\":[\"AAPL\"]}"
UnknownText == "{\"type\":\"hello\"}"
\* a subscribe message whose symbols is one string and no list
StringSymbolsText == "{\"type\":\"subscribe\",\"symbols\":\"F\"}"
\* the texts a client sends; "aapl" is not JSON
Texts == {SubscribeText, UnsubscribeText, UnknownText, StringSymbolsText, "aapl"}

\* JSON.parse(event.data): ok is FALSE when it throws; hasSymbols is the truth
\* of message.symbols, isList whether it is an array of strings, and symbols
\* what `for (const symbol of message.symbols)` walks: the elements of an
\* array, the characters of a string
Parse(data) ==
  CASE data = SubscribeText ->
         [ok |-> TRUE, type |-> "subscribe", hasSymbols |-> TRUE,
          isList |-> TRUE, symbols |-> <<"AAPL", "MSFT">>]
    [] data = UnsubscribeText ->
         [ok |-> TRUE, type |-> "unsubscribe", hasSymbols |-> TRUE,
          isList |-> TRUE, symbols |-> <<"AAPL">>]
    [] data = StringSymbolsText ->
         [ok |-> TRUE, type |-> "subscribe", hasSymbols |-> TRUE,
          isList |-> FALSE, symbols |-> <<"F">>]
    [] data = UnknownText ->
         [ok |-> TRUE, type |-> "hello", hasSymbols |-> FALSE,
          isList |-> FALSE, symbols |-> <<>>]
    [] OTHER ->
         [ok |-> FALSE, type |-> "", hasSymbols |-> FALSE,
          isList |-> FALSE, symbols |-> <<>>]

\* message.symbols where a symbol is expected: an array, which `!==` tells
\* from every string.  It is written as the text of the array, which no
\* interest equals.
ArrayValue(symbols) ==
  IF symbols = <<"AAPL">> THEN "[\"AAPL\"]" ELSE "[\"AAPL\",\"MSFT\"]"

\* the inner loop of addInterests: push each symbol the array lacks
RECURSIVE PushMissing(_, _)
PushMissing(ints, symbols) ==
  IF symbols = <<>> THEN ints
  ELSE PushMissing(IF Head(symbols) \in Range(ints) THEN ints
                   ELSE Append(ints, Head(symbols)),
                   Tail(symbols))

\* the listener objects after addInterests(ws, symbols)
addInterests(L, O, w, symbols) ==
  LET o == FindIn(L, O, w, 1) IN
    IF o # 0
    THEN [O EXCEPT ![o].interests = PushMissing(@, symbols)]
    ELSE O

\* a call of ws.send(frame), with the readiness of the socket at the call
SendCall(kind, w) == [kind |-> kind, ready |-> wsState[w] = "OPEN"]

\* addListener(ws)
FinnAddListener ==
  /\ Op
  /\ Len(obj) < MaxListeners
  /\ obj' = Append(obj, [ws |-> Len(obj) + 1, interests |-> <<>>])
  /\ listeners' = Append(listeners, Len(obj) + 1)
  /\ sess' = [sess EXCEPT ![Len(obj) + 1].ping = TRUE]
  /\ cycles' = Disturbed
  /\ UNCHANGED <<wsState, timers, hdr, worker>>

\* the frame the try block of the message handler sends
Answer(p) ==
  IF p.type = "subscribe" /\ p.hasSymbols THEN "subscribed"
  ELSE IF p.type = "unsubscribe" /\ p.hasSymbols THEN "unsubscribed"
  ELSE "error"

\* the "message" handler installed by addListener(ws).  A message is delivered
\* while the connection is open: the peer sends none after its close frame,
\* and nothing here closes a connection from this side.  ws.send may throw
\* (throws); a throw inside the try block leads to the catch block, which
\* calls ws.send once more.
FinnMessage(w, data, throws) ==
  /\ Op
  /\ w \in {obj[o].ws : o \in DOMAIN obj}
  /\ wsState[w] = "OPEN"
  /\ LET p == Parse(data) IN
       /\ sess' = [sess EXCEPT ![w].frames =
                     IF ~p.ok THEN Append(@, SendCall("error", w))
                     ELSE IF throws
                     THEN Append(Append(@, SendCall(Answer(p), w)),
                                 SendCall("error", w))
                     ELSE Append(@, SendCall(Answer(p), w))]
       /\ IF p.ok /\ Answer(p) = "subscribed"
          THEN /\ obj' = addInterests(listeners, obj, w, p.symbols)
               /\ cycles' = Disturbed
          ELSE IF p.ok /\ Answer(p) = "unsubscribed"
          THEN /\ obj' = removeInterest(listeners, obj, w, ArrayValue(p.symbols))
               /\ LET o == Find(w) IN
                    IF o # 0
                    THEN cycles' = [i \in DOMAIN cycles |->
                                      DetachInterests(cycles[i], o)]
                    ELSE cycles' = Disturbed
          ELSE UNCHANGED <<obj, cycles, worker>>
  /\ UNCHANGED <<listeners, wsState, timers, hdr, worker>>

\* the ping interval of a connection fires
Ping(w) ==
  /\ sess[w].ping
  /\ IF wsState[w] = "OPEN"
     THEN /\ Op
          /\ sess' = [sess EXCEPT ![w].frames = Append(@, SendCall("ping", w))]
     ELSE /\ sess' = [sess EXCEPT ![w].ping = FALSE]
          /\ UNCHANGED ops
  /\ UNCHANGED <<listeners, obj, wsState, timers, cycles, hdr, worker>>

NextFinn ==
  \/ Start
  \/ Tick
  \/ \E i \in DOMAIN cycles, r \in Replies : Reply(i, r)
  \/ FinnAddListener
  \/ \E w \in WS, data \in Texts, throws \in BOOLEAN : FinnMessage(w, data, throws)
  \/ \E w \in WS : Ping(w)
  \/ \E w \in WS : CloseEvent(w)
  \/ \E w \in WS : Closing(w)

SpecFinn == Init /\ [][NextFinn]_vars

\* setInterval(..., 30000): the ping interval keeps firing
PingFairness == \A w \in WS : WF_vars(Ping(w))

SpecFinnLive == SpecFinn /\ PingFairness

\* ------------------------------------------- the two halves of a resolver call
\* In Spec a resolver call ends in one step (Reply).  makeYahooFinanceRequest
\* really ends in two: `await fetch(...)`, which the 10 s timer aborts, and,
\* after clearTimeout, `await response.json()`, which nothing bounds.
ThrowReply ==
  [kind |-> "throw", chart |-> FALSE, meta |-> FALSE,
   regularMarketPrice |-> Absent, previousClose |-> Absent]

\* fetch resolves with a response: clearTimeout(timeoutId)
Headers(i) ==
  /\ i \in DOMAIN cycles
  /\ cycles[i].pc = "await"
  /\ i \notin hdr
  /\ hdr' = hdr \cup {i}
  /\ UNCHANGED <<listeners, obj, wsState, timers, ops, cycles, sess, worker>>

\* fetch rejects: the timer called controller.abort(), or the network failed
Abort(i) ==
  /\ i \in DOMAIN cycles
  /\ cycles[i].pc = "await"
  /\ i \notin hdr
  /\ cycles' = [cycles EXCEPT ![i] = Resume(cycles[i], ThrowReply)]
  /\ UNCHANGED <<listeners, obj, wsState, timers, ops, hdr, sess, worker>>

\* response.ok is false, or response.json() resolves or rejects
Body(i, r) ==
  /\ i \in DOMAIN cycles
  /\ cycles[i].pc = "await"
  /\ i \in hdr
  /\ cycles' = [cycles EXCEPT ![i] = Resume(cycles[i], r)]
  /\ hdr' = hdr \ {i}
  /\ UNCHANGED <<listeners, obj, wsState, timers, ops, sess, worker>>

NextLive ==
  \/ Start
  \/ Tick
  \/ \E i \in 1..MaxTicks : Headers(i)
  \/ \E i \in 1..MaxTicks : Abort(i)
  \/ \E i \in 1..MaxTicks, r \in Replies : Body(i, r)
  \/ \E ints \in InitialInterests : AddListener(ints)
  \/ \E w \in WS, s \in Symbols : AddInterest(w, s)
  \/ \E w \in WS, s \in Symbols : RemoveInterest(w, s)
  \/ \E w \in WS : RemoveListener(w)
  \/ \E w \in WS : CloseEvent(w)
  \/ \E w \in WS : Closing(w)

\* the timer of makeYahooFinanceRequest: a pending fetch is answered or aborted
LiveFairness == \A i \in 1..MaxTicks : WF_vars(Headers(i) \/ Abort(i))

SpecLive == Init /\ [][NextLive]_vars /\ LiveFairness

\* --------------------------------------------- the worker and its sessions
\* enum ApiProvider
Providers == {"finnhub", "api_ninjas", "yahoo_finance"}
\* the provider argument left out
Undefined == "undefined"

\* new ApiClient(config), config the set of keys that are set: ok is FALSE
\* when the constructor throws
ApiClient(config) ==
  IF /\ "finnhubApiKey" \notin config
     /\ "apiNinjasApiKey" \notin config
     /\ "secApiKey" \notin config
  THEN [ok |-> FALSE, keys |-> {}]
  ELSE [ok |-> TRUE, keys |-> config]

\* new StockValueManager(): this.apiClient = new ApiClient({})
StockValueManager == ApiClient({})

\* the provider getQuote(symbol, provider) of a client with these keys asks
QuoteProvider(keys, provider) ==
  IF provider = "yahoo_finance" THEN "yahoo_finance"
  ELSE IF \/ provider = "api_ninjas"
          \/ ("finnhubApiKey" \notin keys /\ "apiNinjasApiKey" \in keys)
       THEN "api_ninjas"
  ELSE IF provider = "finnhub" \/ "finnhubApiKey" \in keys THEN "finnhub"
  ELSE "yahoo_finance"

\* handleWebSocketSession(websocket, env) up to the registration: the manager
\* is built on the first session, and the connection is added with the one
\* interest of the session; a throwing constructor ends the session there
Session(w) ==
  /\ w \notin worker.sessions
  /\ wsState[w] = "OPEN"
  /\ IF worker.stockValueManager = "null" /\ ~StockValueManager.ok
     THEN /\ worker' = [worker EXCEPT !.sessions = @ \cup {w}]
          /\ UNCHANGED <<listeners, obj, ops, cycles>>
     ELSE /\ worker' = [worker EXCEPT !.sessions = @ \cup {w},
                                      !.stockValueManager = "built"]
          /\ Op
          /\ Len(obj) < MaxListeners
          /\ obj' = Append(obj, [ws |-> w, interests |-> SessionInterests])
          /\ listeners' = Append(listeners, Len(obj) + 1)
          /\ cycles' = Disturbed
  /\ UNCHANGED <<wsState, timers, hdr, sess>>

\* getUnifiedQuote(symbol, env, provider): a client built from the keys of
\* the environment, then getQuote; status 500 when either throws
QuoteRoute(symbol, provider) ==
  /\ worker' = [worker EXCEPT !.response =
       IF ApiClient(worker.env).ok
       THEN [symbol |-> symbol, provider |-> provider, status |-> 200,
             source |-> QuoteProvider(ApiClient(worker.env).keys, provider)]
       ELSE [symbol |-> symbol, provider |-> provider, status |-> 500,
             source |-> ""]]
  /\ UNCHANGED <<listeners, obj, wsState, timers, ops, cycles, hdr, sess>>

\* a deployment with any keys, before its first session
InitWorker ==
  /\ InitRegistry
  /\ \E env \in SUBSET Keys :
       worker = [env |-> env, stockValueManager |-> "null", sessions |-> {},
                 response |-> NoResponse]

NextWorker ==
  \/ \E w \in WS : Session(w)
  \/ \E s \in Symbols, p \in Providers \cup {Undefined} : QuoteRoute(s, p)

SpecWorker == InitWorker /\ [][NextWorker]_vars

TypeOK ==
  /\ timers \in 0..MaxStarts
  /\ Len(cycles) <= MaxTicks
  /\ Len(obj) <= MaxListeners
  /\ hdr \subseteq DOMAIN cycles

\* ------------------------------------------------------------------ claims
Cyc == DOMAIN cycles
SymsOf(u) == {u[k].symbol : k \in 1..Len(u)}
Count(q, x) == Cardinality({k \in 1..Len(q) : q[k] = x})
\* the union of all interests when cycle c was started
SnapUnion(c) == UNION {c.snap[o] : o \in c.snapReg}
\* every entry cycle c has built so far, delivered or not
AllEntries(c) ==
  Range(c.updates) \cup UNION {Range(c.sent[k].updates) : k \in 1..Len(c.sent)}

\* C1: a finished cycle has called the resolver once per distinct symbol
\* subscribed, never more.  Stated for the cycles during which no registry
\* call was made, where "the symbols subscribed" is one well-defined set.
C1_CallsEqualDistinctSymbols ==
  \A i \in Cyc :
    (cycles[i].pc = "done" /\ cycles[i].quiet)
      => Len(cycles[i].calls) = Cardinality(SnapUnion(cycles[i]))

\* C2: every Outbound Update delivered has exactly one entry per symbol the
\* subscriber is interested in (its interests at delivery, or else its
\* interests when the cycle was started), and a price_update entry carries
\* the price the resolver returned for its symbol in this cycle.
C2_OneEntryPerInterest ==
  \A i \in Cyc : \A k \in 1..Len(cycles[i].sent) :
    LET c == cycles[i]
        d == c.sent[k]
        u == d.updates
    IN /\ Len(u) = Cardinality(SymsOf(u))
       /\ SymsOf(u) = d.cur \/ SymsOf(u) = c.snap[d.lis]
       /\ \A n \in 1..Len(u) :
            /\ u[n].type \in {"price_update", "error"}
            /\ u[n].type = "price_update"
                 => /\ c.stockCache[u[n].symbol].has
                    /\ c.stockCache[u[n].symbol].price = u[n].price

\* C3: at no time are two cycles in progress.
C3_CyclesSerialized ==
  Cardinality({i \in Cyc : cycles[i].pc = "await"}) <= 1

\* C4: a symbol whose resolution failed in a cycle is not resolved again in
\* that cycle.
C4_FailureNotRetried ==
  \A i \in Cyc : \A s \in cycles[i].failed : Count(cycles[i].calls, s) = 1

\* C5: within one cycle all deliveries agree on the outcome of a symbol.
C5_SameOutcomePerSymbol ==
  \A i \in Cyc : \A k1, k2 \in 1..Len(cycles[i].sent) :
    LET u1 == cycles[i].sent[k1].updates
        u2 == cycles[i].sent[k2].updates
    IN \A n1 \in 1..Len(u1), n2 \in 1..Len(u2) :
         u1[n1].symbol = u2[n2].symbol
           => u1[n1].type = u2[n2].type /\ u1[n1].price = u2[n2].price

\* C6: every entry delivered in a cycle for a symbol whose resolution failed
\* in that cycle is an error entry, one per delivery, never a price_update.
C6_FailureLocalized ==
  \A i \in Cyc : \A k \in 1..Len(cycles[i].sent) : \A s \in cycles[i].failed :
    LET u == cycles[i].sent[k].updates
        es == {n \in 1..Len(u) : u[n].symbol = s}
    IN es # {} => Cardinality(es) = 1 /\ \A n \in es : u[n].type = "error"

\* C7: a reply that carries no usable price never becomes a price_update
\* entry.
C7_MalformedReplyIsFailure ==
  \A i \in Cyc : \A e \in AllEntries(cycles[i]) :
    ~(e.type = "price_update" /\ e.malformed)

\* C8: whatever a cycle holds in its cache or puts into an entry was resolved
\* by a resolver call of that same cycle.
C8_CacheNeverReusedAcrossCycles ==
  \A i \in Cyc :
    LET c == cycles[i] IN
    /\ \A s \in Symbols :
         c.stockCache[s].has
           => c.stockCache[s].src = i /\ s \in Range(c.calls)
    /\ \A e \in AllEntries(c) : e.src = i /\ e.symbol \in Range(c.calls)

\* C8 witness: the second cycle has delivered a price for a symbol the first
\* cycle had delivered a price for as well.
C8_Witness ==
  /\ Len(cycles) >= 2
  /\ \E e1 \in AllEntries(cycles[1]), k \in 1..Len(cycles[2].sent) :
       \E e2 \in Range(cycles[2].sent[k].updates) :
         /\ e1.type = "price_update" /\ e2.type = "price_update"
         /\ e1.symbol = e2.symbol

\* C9: a cycle resolves and delivers only symbols that were subscribed when
\* it was started, each to a subscriber that held it then.
C9_PointInTimeSnapshot ==
  \A i \in Cyc :
    LET c == cycles[i] IN
    /\ Range(c.calls) \subseteq SnapUnion(c)
    /\ \A k \in 1..Len(c.sent) :
         SymsOf(c.sent[k].updates) \subseteq c.snap[c.sent[k].lis]

\* C10: nothing is delivered to a subscriber after its removal.
C10_RemovedSubscriberReceivesNothing ==
  \A i \in Cyc : \A k \in 1..Len(cycles[i].sent) : cycles[i].sent[k].reg

\* the union of all interests of the subscribers registered now
CurrentUnion == UNION {Range(obj[o].interests) : o \in Range(listeners)}
\* the cycles suspended on a resolver call: one request in flight each
InFlight == {i \in Cyc : cycles[i].pc = "await"}

\* C11: a subscriber to which a delivery failed in a cycle is no longer
\* registered once that cycle has finished.
C11_DeliveryFailureRemovesSubscriber ==
  \A i \in Cyc :
    cycles[i].pc = "done"
      => \A k \in 1..Len(cycles[i].dropped) :
           cycles[i].dropped[k].lis \notin Range(listeners)

\* C12: in a finished cycle every subscriber that had interests when the
\* cycle was started and whose connection is open has received its update,
\* whether or not a delivery to another subscriber failed.  Stated for the
\* cycles during which no connection event and no registry call happened.
C12_DeliveryFailureDoesNotAbort ==
  \A i \in Cyc :
    (cycles[i].pc = "done" /\ cycles[i].quiet)
      => \A o \in cycles[i].snapReg :
           (cycles[i].snap[o] # {} /\ wsState[obj[o].ws] = "OPEN")
             => \E k \in 1..Len(cycles[i].sent) : cycles[i].sent[k].lis = o

\* C12 witness: a finished, undisturbed cycle in which a delivery failed and
\* a later subscriber was delivered to all the same.
C12_Witness ==
  \E i \in Cyc :
    /\ cycles[i].pc = "done" /\ cycles[i].quiet
    /\ \E k \in 1..Len(cycles[i].dropped) :
         Len(cycles[i].sent) > cycles[i].dropped[k].at

\* C13: when a cycle delivers to a subscriber, every distinct symbol of the
\* cycle's union has been resolved.  Stated for undisturbed cycles.
C13_ResolveAllBeforeDeliverAll ==
  \A i \in Cyc :
    cycles[i].quiet
      => \A k \in 1..Len(cycles[i].sent) :
           SnapUnion(cycles[i]) \subseteq cycles[i].sent[k].res

\* C14: while a cycle waits for a resolver reply, the resolver calls for all
\* the other symbols of its union have been issued.  Stated for undisturbed
\* cycles.
C14_ResolutionsDoNotBlock ==
  \A i \in Cyc :
    (cycles[i].pc = "await" /\ cycles[i].quiet)
      => SnapUnion(cycles[i]) \subseteq Range(cycles[i].calls)

\* C16: the number of resolver requests in flight is at most the number of
\* distinct symbols subscribed.  Stated for the states in which no running
\* cycle was disturbed, so that what is subscribed now is what was subscribed
\* when the requests were issued.
C16_InFlightBoundedByDistinctSymbols ==
  (\A i \in InFlight : cycles[i].quiet)
    => Cardinality(InFlight) <= Cardinality(CurrentUnion)

\* C15: every started cycle eventually finishes.
C15_EveryCycleFinishes ==
  \A i \in 1..MaxTicks :
    (i \in DOMAIN cycles) ~> (i \in DOMAIN cycles /\ cycles[i].pc = "done")

\* C17: the registry holds at most one listener entry per connection handle.
C17_OneEntryPerHandle ==
  \A a, b \in 1..Len(listeners) :
    obj[listeners[a]].ws = obj[listeners[b]].ws => a = b

\* C18: addInterest, removeInterest and removeListener are idempotent: on every
\* registry the program reaches, a second call with the same arguments leaves
\* what the first call left.
C18_MutationsIdempotent ==
  \A w \in WS :
    /\ withoutListener(withoutListener(listeners, obj, w), obj, w)
         = withoutListener(listeners, obj, w)
    /\ \A s \in Symbols :
         /\ addInterest(listeners, addInterest(listeners, obj, w, s), w, s)
              = addInterest(listeners, obj, w, s)
         /\ removeInterest(listeners, removeInterest(listeners, obj, w, s), w, s)
              = removeInterest(listeners, obj, w, s)
\* a registered listener holds an interest that a call can add again, another
\* listener is already absent, and a symbol was never added
C18_Witness ==
  \E o \in Range(listeners), w \in WS :
    /\ Len(obj[o].interests) = 2
    /\ Find(w) = 0

\* String.prototype.toUpperCase on the strings of the model
Upper(s) ==
  CASE s = "aapl" -> "AAPL"
    [] s = SubscribeText -> "{\"TYPE\":\"SUBSCRIBE\",\"SYMBOLS\":[\"AAPL\",\"MSFT\"]}"
    [] OTHER -> s

\* C19: every held interest is upper case, and no listener holds two interests
\* that are the same symbol up to case.
C19_InterestsUpperCaseUnique ==
  \A o \in DOMAIN obj :
    \A j, k \in 1..Len(obj[o].interests) :
      /\ Upper(obj[o].interests[k]) = obj[o].interests[k]
      /\ Upper(obj[o].interests[j]) = Upper(obj[o].interests[k]) => j = k

\* the symbols a message lists: JSON.parse(data).symbols of a subscribe message
Listed(data) == IF data = SubscribeText THEN {"AAPL", "MSFT"} ELSE {}

\* C20: once a subscribe message of a registered connection is handled, the
\* connection's interests hold every symbol the message lists.
C20_SubscribeAddsEverySymbol ==
  [][\A w \in WS :
       (SessionMessage(w, SubscribeText) /\ Find(w) # 0)
         => Listed(SubscribeText) \subseteq Range(obj'[Find(w)].interests)]_vars

\* C25: a cycle started while the union of all interests is empty makes no
\* resolver call and no delivery, and has returned.
C25_EmptyUnionDoesNothing ==
  \A i \in Cyc :
    SnapUnion(cycles[i]) = {}
      => /\ cycles[i].pc = "done"
         /\ cycles[i].calls = <<>>
         /\ cycles[i].sent = <<>>
         /\ cycles[i].dropped = <<>>
\* a tick has fired on subscribers without interests, and one on no subscriber
C25_Witness ==
  /\ \E i \in Cyc : SnapUnion(cycles[i]) = {} /\ cycles[i].snapReg # {}
  /\ \E i \in Cyc : cycles[i].snapReg = {}

\* C29: addInterest and removeInterest for one connection leave the registered
\* listeners and every other listener's interests as they were.
C29_InterestMutationsAreScoped ==
  [][\A w \in WS, s \in Symbols :
       (AddInterest(w, s) \/ RemoveInterest(w, s))
         => /\ listeners' = listeners
            /\ DOMAIN obj' = DOMAIN obj
            /\ \A o \in DOMAIN obj : obj[o].ws # w => obj'[o] = obj[o]]_vars
\* two registered listeners, one of which was given a second interest
C29_Witness ==
  \E a, b \in Range(listeners) :
    /\ a # b
    /\ Len(obj[a].interests) = 2
    /\ Len(obj[b].interests) < 2

\* C30: at most one periodic timer drives the cycles, however often start is
\* called.
C30_OneScheduler == timers <= 1

\* C21: once an unsubscribe message of a registered connection is handled, the
\* connection's interests hold none of the symbols the message lists.
C21_UnsubscribeRemovesEverySymbol ==
  [][\A w \in WS, throws \in BOOLEAN :
       (FinnMessage(w, UnsubscribeText, throws) /\ Find(w) # 0)
         => \A s \in Range(Parse(UnsubscribeText).symbols) :
              s \notin Range(obj'[Find(w)].interests)]_vars

\* the last call of ws.send on connection w in the step is an error frame
ErrorFrameSent(w) ==
  /\ Len(sess'[w].frames) > Len(sess[w].frames)
  /\ sess'[w].frames[Len(sess'[w].frames)].kind = "error"

\* C22: a message of an open connection that is not valid JSON is answered
\* with an error frame on that connection, and the handler neither closes the
\* connection nor removes it from the registry.
C22_BadMessageAnsweredWithError ==
  [][\A w \in WS, data \in SessionTexts :
       (SessionMessage(w, data) /\ ~Parse(data).ok /\ wsState[w] = "OPEN")
         => /\ ErrorFrameSent(w)
            /\ listeners' = listeners
            /\ wsState' = wsState]_vars

\* the connections the registry holds a listener for
RegisteredWs == {obj[o].ws : o \in Range(listeners)}
\* the frames the cycles have sent to connection w
FramesTo(w) ==
  {<<i, k>> \in Cyc \X (1..(MaxListeners * MaxTicks)) :
     k <= Len(cycles[i].sent) /\ cycles[i].sent[k].ws = w}

\* C23: once the close or error event of a connection has been handled, the
\* registry holds no listener for it and no cycle sends it a frame, also when
\* the second of the two events fires; the second leaves the registry as it is.
C23_ClosedConnectionStaysRemoved ==
  [][\A w \in WS :
       /\ wsState'[w] = "CLOSED"
            => (w \notin RegisteredWs' /\ (FramesTo(w))' \subseteq FramesTo(w))
       /\ RepeatEvent(w) => Range(listeners') = Range(listeners)]_vars
\* both events of a connection have fired while a cycle that started with the
\* connection registered was suspended, and the cycle has finished
C23_Witness ==
  \E w \in WS, i \in Cyc :
    /\ sess[w].twice
    /\ cycles[i].pc = "done"
    /\ ~cycles[i].quiet
    /\ \E o \in cycles[i].snapReg : obj[o].ws = w /\ cycles[i].snap[o] # {}

\* C24: a listener is created with no interests.
C24_RegisteredWithNoInterests ==
  [][\A o \in DOMAIN obj' :
       o \notin DOMAIN obj
         => (o \in Range(listeners') /\ obj'[o].interests = <<>>)]_vars

\* listener o is registered, holds symbol s, and its connection is open
Subscribed(o, s) ==
  /\ o \in Range(listeners)
  /\ s \in Range(obj[o].interests)
  /\ wsState[obj[o].ws] = "OPEN"
\* cycle i has sent listener o a frame with an entry for symbol s
Delivered(i, o, s) ==
  \E k \in 1..Len(cycles[i].sent) :
    cycles[i].sent[k].lis = o /\ s \in SymsOf(cycles[i].sent[k].updates)

\* C26: a cycle started while a listener holds symbol s eventually sends it a
\* frame with an entry for s, unless the listener unsubscribes, is removed or
\* its connection stops being open.
C26_SubscriberEventuallyUpdated ==
  \A i \in 1..MaxTicks, o \in 1..MaxListeners, s \in Symbols :
    (i \in Cyc /\ o \in cycles[i].snapReg /\ s \in cycles[i].snap[o]
       /\ Subscribed(o, s))
      ~> (i \in Cyc /\ o \in DOMAIN obj /\ (Delivered(i, o, s) \/ ~Subscribed(o, s)))

\* C27: a registered connection that is no longer open is eventually removed
\* from the registry, the ping interval firing on.
C27_PingPrunesDeadConnections ==
  \A w \in WS :
    (w \in RegisteredWs /\ wsState[w] # "OPEN") ~> (w \notin RegisteredWs)

C31_NoExceptionEscapes ==
  [][/\ \A i \in DOMAIN cycles' : ~cycles'[i].threw
     /\ \A w \in WS, data \in Texts, throws \in BOOLEAN :
          (FinnMessage(w, data, throws) /\ (throws \/ ~Parse(data).ok))
            => ErrorFrameSent(w)]_vars
\* a resolver call has failed in a finished cycle, a later cycle has finished
\* too, and a message handler has caught a failure
C31_Witness ==
  /\ \E i, j \in Cyc :
       /\ i < j
       /\ cycles[i].pc = "done" /\ cycles[i].failed # {}
       /\ cycles[j].pc = "done" /\ cycles[j].sent # <<>>
  /\ \E w \in WS : \E k \in 1..Len(sess[w].frames) :
       sess[w].frames[k].kind = "error"

\* C32: no frame is ever sent with an empty payload, and in a cycle during
\* which no registry call was made a listener without interests is neither
\* sent a frame nor a delivery attempted for, while every listener with
\* interests and an open connection is sent one.
C32_EmptySubscriberSkipped ==
  \A i \in Cyc :
    /\ \A k \in 1..Len(cycles[i].sent) : cycles[i].sent[k].updates # <<>>
    /\ (cycles[i].pc = "done" /\ cycles[i].quiet)
         => \A o \in cycles[i].snapReg :
              IF cycles[i].snap[o] = {}
              THEN /\ \A k \in 1..Len(cycles[i].sent) : cycles[i].sent[k].lis # o
                   /\ \A d \in 1..Len(cycles[i].dropped) :
                        cycles[i].dropped[d].lis # o
              ELSE wsState[obj[o].ws] = "OPEN"
                     => \E k \in 1..Len(cycles[i].sent) : cycles[i].sent[k].lis = o
\* a finished cycle has visited a listener without interests before one with
C32_Witness ==
  \E i \in Cyc :
    /\ cycles[i].pc = "done" /\ cycles[i].quiet
    /\ \E a, b \in cycles[i].snapReg :
         /\ a < b
         /\ cycles[i].snap[a] = {}
         /\ \E k \in 1..Len(cycles[i].sent) : cycles[i].sent[k].lis = b

StillSuspended ==
  \A i \in InFlight :
    /\ cycles'[i].pc = "await"
    /\ cycles'[i].calls = cycles[i].calls
    /\ ~cycles'[i].threw

\* C34: a registry call made while a cycle is suspended on the resolver has its
\* effect in the same step and leaves the cycle suspended and unharmed; no
\* cycle ever fails; and a cycle that starts reads the registry as it is then.
C34_MutationsNeverWait ==
  [][/\ InFlight # {} =>
          /\ \A w \in WS, s \in Symbols :
               /\ (AddInterest(w, s) /\ Find(w) # 0)
                    => (s \in Range(obj'[Find(w)].interests) /\ StillSuspended)
               /\ (RemoveInterest(w, s) /\ Find(w) # 0)
                    => (s \notin Range(obj'[Find(w)].interests) /\ StillSuspended)
          /\ \A w \in WS :
               RemoveListener(w) => (w \notin RegisteredWs' /\ StillSuspended)
          /\ \A ints \in InitialInterests :
               AddListener(ints)
                 => /\ Len(listeners') = Len(listeners) + 1
                    /\ obj'[listeners'[Len(listeners')]].interests = ints
                    /\ StillSuspended
     /\ \A i \in DOMAIN cycles' : ~cycles'[i].threw
     /\ Tick => /\ cycles'[Len(cycles')].snapReg = Range(listeners)
                /\ \A o \in Range(listeners) :
                     cycles'[Len(cycles')].snap[o] = Range(obj[o].interests)]_vars
\* a cycle has finished after registry calls were made while it was suspended,
\* and a later cycle has started from a different registry
C34_Witness ==
  \E i, j \in Cyc :
    /\ i < j
    /\ cycles[i].pc = "done"
    /\ ~cycles[i].quiet
    /\ cycles[j].snap # cycles[i].snap

\* the message is a subscribe or an unsubscribe with a list of symbols
WellFormed(data) ==
  /\ Parse(data).ok
  /\ Parse(data).type \in {"subscribe", "unsubscribe"}
  /\ Parse(data).hasSymbols
  /\ Parse(data).isList

\* C36: handling a message that is no well-formed subscribe or unsubscribe
\* leaves every listener's interests as they were.
C36_BadMessageChangesNoInterest ==
  [][\A w \in WS, data \in Texts, throws \in BOOLEAN :
       (FinnMessage(w, data, throws) /\ ~WellFormed(data))
         => \A o \in DOMAIN obj : obj'[o].interests = obj[o].interests]_vars

\* no key of a quote provider is set in the environment
NoProviderKey == worker.env \cap {"finnhubApiKey", "apiNinjasApiKey"} = {}

\* C35: with no provider key configured, every session that was started has
\* built the manager and registered its connection, and a quote request that
\* names no provider is answered from Yahoo Finance.
C35_FirstSessionSucceedsWithoutKeys ==
  NoProviderKey =>
    /\ \A w \in worker.sessions :
         /\ worker.stockValueManager = "built"
         /\ w \in {obj[listeners[k]].ws : k \in 1..Len(listeners)}
    /\ worker.response.provider = Undefined
         => (worker.response.status = 200
             /\ worker.response.source = "yahoo_finance")
====
